---- MODULE Spec2Model ----
(***************************************************************************)
(* Hypothetical Document Embeddings (chains/hyde/base.py).                 *)
(*                                                                         *)
(* HypotheticalDocumentEmbedder.from_llm selects a prompt and builds the   *)
(* embedder; embed_query asks the LLM chain for candidate documents,       *)
(* embeds them with the base embedding model in one batch and returns the  *)
(* numpy mean over axis 0; embed_documents forwards to the base model.     *)
(*                                                                         *)
(* Floating point: numpy computes in binary64.  The model keeps the        *)
(* semantics of a binary floating-point format (round to nearest, ties to  *)
(* even, after every addition and after the division) with a significand   *)
(* of Precision bits instead of 53; numbers are counted in units of the    *)
(* format's smallest positive value.                                       *)
(***************************************************************************)
EXTENDS Integers, Sequences, FiniteSets, TLC

\* ------------------------------------------------------------- bounds
\* Most completions the generative model returns for one request.
MaxGen == 3
\* Significand bits of the modelled binary floating-point format.
Precision == 3

\* Concurrent callers of the one embedder object.
Calls == {"c1", "c2"}
\* The query text each caller passes to embed_query: concurrent calls
\* carry different queries.
QueryOf == [c \in Calls |-> IF c = "c1" THEN "what is X" ELSE "what is Y"]
\* Texts the generative model can produce / callers can pass as documents.
Docs == {"doc1", "doc2", "doc3"}
\* The batches callers pass to embed_documents directly.
DocumentBatches ==
    {<<>>, <<"doc1">>, <<"doc1", "doc2">>, <<"doc2", "doc1">>, <<"doc3", "doc3">>}

\* ------------------------------------------------------ result values
NoExc == "None"
None == [tag |-> "None", exc |-> NoExc]
Raised(e) == [tag |-> "raise", exc |-> e]
Returned == [tag |-> "ok", exc |-> NoExc]

\* ------------------------------------------------- binary floating point
Abs(x) == IF x < 0 THEN -x ELSE x

RECURSIVE Pow2(_)
Pow2(n) == IF n = 0 THEN 1 ELSE 2 * Pow2(n - 1)

\* The exponent e >= 0 of the binade holding a/d: the least e with
\* a/d < 2^(Precision + e); values there are spaced 2^e apart.
RECURSIVE Exponent(_, _, _)
Exponent(a, d, e) ==
    IF a < d * Pow2(Precision + e) THEN e ELSE Exponent(a, d, e + 1)

\* a/d (a >= 0, d > 0) rounded to the nearest integer, ties to even.
RoundHalfEven(a, d) ==
    LET q == a \div d
        r == a % d
    IN  IF 2 * r < d THEN q
        ELSE IF 2 * r > d THEN q + 1
        ELSE IF q % 2 = 0 THEN q ELSE q + 1

\* The rational n/d rounded to the floating-point format.
FRound(n, d) ==
    LET a == Abs(n)
        ulp == Pow2(Exponent(a, d, 0))
        m == RoundHalfEven(a, d * ulp)
    IN  (IF n < 0 THEN -1 ELSE 1) * m * ulp

\* float64 + float64 and float64 / count, each correctly rounded.
float_add(x, y) == FRound(x + y, 1)
float_div(x, n) == FRound(x, n)

\* ------------------------------------------------------- collaborators
\* A power of two large enough that adding a small number to it rounds.
Big == Pow2(Precision + 2)

\* Every text the embedding model may be handed.
Texts == Docs \cup {QueryOf[c] : c \in Calls}

\* The embedding model: one fixed-length vector per text.
EmbedTable ==
    [t \in Texts |->
        IF t = "doc1" THEN <<1, 3>>
        ELSE IF t = "doc2" THEN <<3, 1>>
        ELSE IF t = "doc3" THEN <<Big, -Big>>
        ELSE <<1, 1>>]

\* base_embeddings.embed_documents(texts): the batch operation; it
\* answers the whole batch or fails as a whole.
BaseEmbedDocuments(texts, outcome) ==
    IF outcome = "ok"
    THEN [tag |-> "ok", exc |-> NoExc,
          val |-> [i \in 1..Len(texts) |-> EmbedTable[texts[i]]]]
    ELSE [tag |-> "raise", exc |-> outcome, val |-> <<>>]

RECURSIVE SeqsUpTo(_, _)
SeqsUpTo(S, n) ==
    IF n = 0 THEN {<<>>}
    ELSE LET shorter == SeqsUpTo(S, n - 1)
         IN  shorter \cup {Append(s, x) : s \in {t \in shorter : Len(t) = n - 1}, x \in S}

\* A Generation object carries the completion's text.
Generation(d) == [text |-> d]

\* What llm_chain.generate can answer for one request: an LLMResult whose
\* generations[0] lists the completions in model order, or a failure.
LLMResponses ==
    {[tag |-> "ok", exc |-> NoExc,
      generations |-> [i \in 1..Len(s) |-> Generation(s[i])]] : s \in SeqsUpTo(Docs, MaxGen)}
    \cup {[tag |-> "raise", exc |-> "LLMError", generations |-> <<>>]}

EmbedOutcomes == {"ok", "EmbeddingError"}

\* ------------------------------------------------------------- prompts
Prompt(t, vars) == [template |-> t, input_variables |-> vars]
NoPrompt == Prompt("None", <<>>)
CustomPrompt == Prompt("custom_template", <<"question">>)

\* langchain.chains.hyde.prompts.PROMPT_MAP
PROMPT_MAP ==
    [k \in {"web_search", "sci_fact"} |->
        IF k = "web_search" THEN Prompt("web_search_template", <<"QUESTION">>)
        ELSE Prompt("sci_fact_template", <<"Claim">>)]

NoKey == "None"
PromptKeys == {NoKey, "web_search", "sci_fact", "unknown_key"}
CustomPrompts == {NoPrompt, CustomPrompt}

\* LLMChain(llm=llm, prompt=prompt)
LLMChain(llm, prompt) == [llm |-> llm, prompt |-> prompt]
\* LLMChain.input_keys: the prompt's input variables.
LLMChainInputKeys(chain) == chain.prompt.input_variables

NoEmbedder ==
    [constructed |-> FALSE, base_embeddings |-> "None",
     llm_chain |-> LLMChain("None", NoPrompt)]

\* ---------------------------------------------------------------- state
VARIABLES
    promptMap,   \* the registry PROMPT_MAP as the process holds it
    embedder,    \* the HypotheticalDocumentEmbedder callers share
    llm_chains,  \* every LLMChain from_llm has constructed
    construct,   \* the from_llm call in progress: arguments, value, exception
    frame        \* per caller: the running method's position and locals

vars == <<promptMap, embedder, llm_chains, construct, frame>>

NoText == "None"
IdleFrame ==
    [pc |-> "idle", op |-> "None", text |-> NoText, texts |-> <<>>,
     var_name |-> "None",
     result |-> [tag |-> "None", exc |-> NoExc, generations |-> <<>>],
     documents |-> <<>>, has_documents |-> FALSE,
     embeddings |-> <<>>, has_embeddings |-> FALSE,
     combined |-> FALSE, ret |-> <<>>, ret_docs |-> <<>>, outcome |-> None,
     llm_calls |-> <<>>, embed_calls |-> <<>>]

NoConstruct ==
    [pc |-> "idle", prompt_key |-> NoKey, custom_prompt |-> NoPrompt,
     raised |-> NoExc, message_keys |-> {}, value |-> NoEmbedder]

Init ==
    /\ promptMap = PROMPT_MAP
    /\ embedder = NoEmbedder
    /\ llm_chains = {}
    /\ construct = NoConstruct
    /\ frame = [c \in Calls |-> IdleFrame]

\* ------------------------------------------------------------ from_llm
\* from_llm's prompt selection: the custom prompt if given, else the
\* registry's template for a registered key, else ValueError whose message
\* lists the registry's keys.
\* Variant: a registered key wins over the custom prompt.
select_prompt_key_first(prompt_key, custom_prompt) ==
    IF prompt_key # NoKey /\ prompt_key \in DOMAIN promptMap
    THEN [tag |-> "ok", exc |-> NoExc, prompt |-> promptMap[prompt_key], message_keys |-> {}]
    ELSE IF custom_prompt # NoPrompt
    THEN [tag |-> "ok", exc |-> NoExc, prompt |-> custom_prompt, message_keys |-> {}]
    ELSE [tag |-> "raise", exc |-> "ValueError", prompt |-> NoPrompt,
          message_keys |-> DOMAIN promptMap]

\* Variant: without a usable key the web_search template is the default.
select_prompt_default_key(prompt_key, custom_prompt) ==
    IF custom_prompt # NoPrompt
    THEN [tag |-> "ok", exc |-> NoExc, prompt |-> custom_prompt, message_keys |-> {}]
    ELSE IF prompt_key # NoKey /\ prompt_key \in DOMAIN promptMap
    THEN [tag |-> "ok", exc |-> NoExc, prompt |-> promptMap[prompt_key], message_keys |-> {}]
    ELSE [tag |-> "ok", exc |-> NoExc, prompt |-> promptMap["web_search"], message_keys |-> {}]

select_prompt(prompt_key, custom_prompt) ==
    IF custom_prompt # NoPrompt
    THEN [tag |-> "ok", exc |-> NoExc, prompt |-> custom_prompt, message_keys |-> {}]
    ELSE IF prompt_key # NoKey /\ prompt_key \in DOMAIN promptMap
    THEN [tag |-> "ok", exc |-> NoExc, prompt |-> promptMap[prompt_key], message_keys |-> {}]
    ELSE [tag |-> "raise", exc |-> "ValueError", prompt |-> NoPrompt,
          message_keys |-> DOMAIN promptMap]

\* Variant: a custom prompt is registered under the key it came with.
registry_after_from_llm_register(prompt_key, custom_prompt) ==
    IF custom_prompt # NoPrompt /\ prompt_key # NoKey
    THEN [k \in DOMAIN promptMap \cup {prompt_key} |->
            IF k = prompt_key THEN custom_prompt ELSE promptMap[k]]
    ELSE promptMap

\* from_llm never writes the registry.
registry_after_from_llm(prompt_key, custom_prompt) == promptMap

\* from_llm(llm, base_embeddings, prompt_key, custom_prompt) runs to its
\* return or its raise.
from_llm(prompt_key, custom_prompt) ==
    /\ ~embedder.constructed
    /\ construct.pc = "idle"
    /\ LET sel == select_prompt(prompt_key, custom_prompt)
           chain == LLMChain("llm", sel.prompt)
       IN  /\ construct' =
                 [pc |-> IF sel.tag = "ok" THEN "returned" ELSE "raised",
                  prompt_key |-> prompt_key,
                  custom_prompt |-> custom_prompt,
                  raised |-> sel.exc,
                  message_keys |-> sel.message_keys,
                  value |-> IF sel.tag = "ok"
                            THEN [constructed |-> TRUE,
                                  base_embeddings |-> "base_embeddings",
                                  llm_chain |-> chain]
                            ELSE NoEmbedder]
           /\ llm_chains' = IF sel.tag = "ok" THEN llm_chains \cup {chain} ELSE llm_chains
    /\ promptMap' = registry_after_from_llm(prompt_key, custom_prompt)
    /\ UNCHANGED <<embedder, frame>>

\* The caller of from_llm has its value (the embedder callers then share)
\* or its exception; the call's frame is gone.
FinishFromLlm ==
    /\ construct.pc \in {"returned", "raised"}
    /\ embedder' = IF construct.pc = "returned" THEN construct.value ELSE embedder
    /\ construct' = NoConstruct
    /\ UNCHANGED <<promptMap, llm_chains, frame>>

\* ----------------------------------------------------- embed_documents
\* self.base_embeddings.embed_documents(texts): the texts handed to the
\* base model and what the method returns (the base model's answer).
\* Variant: the batch is handed over in reverse order.
embed_documents_reversed(texts, outcome) ==
    LET rev == [i \in 1..Len(texts) |-> texts[Len(texts) + 1 - i]]
    IN  [call |-> rev, response |-> BaseEmbedDocuments(rev, outcome)]

embed_documents(texts, outcome) ==
    [call |-> texts, response |-> BaseEmbedDocuments(texts, outcome)]

\* A caller invokes embed_documents(texts) on the embedder.
CallEmbedDocuments(c, texts) ==
    /\ embedder.constructed
    /\ frame[c].pc = "idle"
    /\ \E outcome \in EmbedOutcomes :
         LET r == embed_documents(texts, outcome)
         IN  frame' = [frame EXCEPT ![c] =
                 [@ EXCEPT !.op = "embed_documents",
                           !.texts = texts,
                           !.embed_calls = Append(@, [texts |-> r.call, response |-> r.response]),
                           !.pc = IF r.response.tag = "ok" THEN "returned" ELSE "raised",
                           !.ret_docs = r.response.val,
                           !.outcome = IF r.response.tag = "ok" THEN Returned
                                       ELSE Raised(r.response.exc)]]
    /\ UNCHANGED <<promptMap, embedder, llm_chains, construct>>

\* --------------------------------------------------- combine_embeddings
\* np.add.reduce over axis 0: the rows are accumulated in order, each
\* addition rounded.
RECURSIVE add_reduce_axis0(_, _)
add_reduce_axis0(rows, k) ==
    IF k = 1 THEN rows[1]
    ELSE LET acc == add_reduce_axis0(rows, k - 1)
         IN  [i \in 1..Len(rows[1]) |-> float_add(acc[i], rows[k][i])]

\* Variant: the mean over axis 1 (one number per row).
np_mean_axis1(embeddings) ==
    IF Len(embeddings) = 0
    THEN [kind |-> "scalar_nan", val |-> <<>>]
    ELSE [kind |-> "array",
          val |-> [j \in 1..Len(embeddings) |->
                     float_div(add_reduce_axis0(
                                   [i \in 1..Len(embeddings[j]) |-> <<embeddings[j][i]>>],
                                   Len(embeddings[j]))[1],
                               Len(embeddings[j]))]]

\* Variant: the first row stands for all of them.
np_first_row(embeddings) ==
    IF Len(embeddings) = 0
    THEN [kind |-> "scalar_nan", val |-> <<>>]
    ELSE [kind |-> "array", val |-> embeddings[1]]

\* np.array(embeddings).mean(axis=0).  An empty list is an array of shape
\* (0,), whose mean over axis 0 is the scalar nan; N rows of length D give
\* the length-D array of column sums divided by N.
np_mean_axis0(embeddings) ==
    IF Len(embeddings) = 0
    THEN [kind |-> "scalar_nan", val |-> <<>>]
    ELSE [kind |-> "array",
          val |-> [i \in 1..Len(embeddings[1]) |->
                     float_div(add_reduce_axis0(embeddings, Len(embeddings))[i],
                               Len(embeddings))]]

\* Variant: a scalar becomes the empty list.
list_of_lenient(x) == [tag |-> "ok", exc |-> NoExc, val |-> x.val]

\* list(x): the elements of an array; a numpy scalar is not iterable.
list_of(x) ==
    IF x.kind = "array"
    THEN [tag |-> "ok", exc |-> NoExc, val |-> x.val]
    ELSE [tag |-> "raise", exc |-> "TypeError", val |-> <<>>]

combine_embeddings(embeddings) == list_of(np_mean_axis0(embeddings))

\* ---------------------------------------------------------- embed_query
\* Variant: embed_query goes straight to the embedding call.
CallEmbedQuery_skip_generate(c) ==
    /\ embedder.constructed
    /\ frame[c].pc = "idle"
    /\ frame' = [frame EXCEPT ![c] =
           [@ EXCEPT !.op = "embed_query",
                     !.text = QueryOf[c],
                     !.var_name = LLMChainInputKeys(embedder.llm_chain)[1],
                     !.pc = "embed"]]
    /\ UNCHANGED <<promptMap, embedder, llm_chains, construct>>

\* A caller invokes embed_query(text); var_name = llm_chain.input_keys[0].
CallEmbedQuery(c) ==
    /\ embedder.constructed
    /\ frame[c].pc = "idle"
    /\ frame' = [frame EXCEPT ![c] =
           [@ EXCEPT !.op = "embed_query",
                     !.text = QueryOf[c],
                     !.var_name = LLMChainInputKeys(embedder.llm_chain)[1],
                     !.pc = "generate"]]
    /\ UNCHANGED <<promptMap, embedder, llm_chains, construct>>

\* The request embed_query submits: one input dict binding var_name to text.
generation_request(f) ==
    [prompt |-> embedder.llm_chain.prompt, var |-> f.var_name, value |-> f.text]

\* Variant: a completion equal to the one before it is dropped.
collect_documents_dedup(generations) ==
    LET keep == {i \in 1..Len(generations) :
                    i = 1 \/ generations[i].text # generations[i - 1].text}
        nth(k) == CHOOSE i \in keep : Cardinality({j \in keep : j <= i}) = k
    IN  [k \in 1..Cardinality(keep) |-> generations[nth(k)].text]

\* documents = [generation.text for generation in result.generations[0]]
collect_documents(generations) ==
    [i \in 1..Len(generations) |-> generations[i].text]

\* Variant: a failed generation falls back to the raw query as the only
\* candidate.
after_generate_fallback(f, response) ==
    [f EXCEPT !.llm_calls = Append(@, [request |-> generation_request(f),
                                       response |-> response]),
              !.result = IF response.tag = "ok" THEN response ELSE @,
              !.documents = IF response.tag = "ok"
                            THEN collect_documents(response.generations)
                            ELSE <<f.text>>,
              !.has_documents = TRUE,
              !.pc = "embed"]

\* The frame after result = self.llm_chain.generate([{var_name: text}])
\* was answered with response, and documents was collected from it.
after_generate(f, response) ==
    [f EXCEPT !.llm_calls = Append(@, [request |-> generation_request(f),
                                       response |-> response]),
              !.result = IF response.tag = "ok" THEN response ELSE @,
              !.documents = IF response.tag = "ok"
                            THEN collect_documents(response.generations) ELSE @,
              !.has_documents = (response.tag = "ok"),
              !.pc = IF response.tag = "ok" THEN "embed" ELSE "raised",
              !.outcome = IF response.tag = "ok" THEN @ ELSE Raised(response.exc)]

Generate(c) ==
    /\ frame[c].pc = "generate"
    /\ \E response \in LLMResponses :
         frame' = [frame EXCEPT ![c] = after_generate(frame[c], response)]
    /\ UNCHANGED <<promptMap, embedder, llm_chains, construct>>

\* The frame after embeddings = self.embed_documents(documents).
after_embed(f, outcome) ==
    LET r == embed_documents(f.documents, outcome)
    IN  [f EXCEPT !.embed_calls = Append(@, [texts |-> r.call, response |-> r.response]),
                  !.embeddings = r.response.val,
                  !.has_embeddings = (r.response.tag = "ok"),
                  !.pc = IF r.response.tag = "ok" THEN "combine" ELSE "raised",
                  !.outcome = IF r.response.tag = "ok" THEN @ ELSE Raised(r.response.exc)]

EmbedCandidates(c) ==
    /\ frame[c].pc = "embed"
    /\ \E outcome \in EmbedOutcomes :
         frame' = [frame EXCEPT ![c] = after_embed(frame[c], outcome)]
    /\ UNCHANGED <<promptMap, embedder, llm_chains, construct>>

\* return self.combine_embeddings(embeddings)
CombineAndReturn(c) ==
    /\ frame[c].pc = "combine"
    /\ LET r == combine_embeddings(frame[c].embeddings)
       IN  frame' = [frame EXCEPT ![c] =
               [@ EXCEPT !.combined = TRUE,
                         !.ret = r.val,
                         !.pc = IF r.tag = "ok" THEN "returned" ELSE "raised",
                         !.outcome = IF r.tag = "ok" THEN Returned ELSE Raised(r.exc)]]
    /\ UNCHANGED <<promptMap, embedder, llm_chains, construct>>

\* The caller has the method's value or exception; the frame is gone.
Finish(c) ==
    /\ frame[c].pc \in {"returned", "raised"}
    /\ frame' = [frame EXCEPT ![c] = IdleFrame]
    /\ UNCHANGED <<promptMap, embedder, llm_chains, construct>>

Next ==
    \/ \E k \in PromptKeys, p \in CustomPrompts : from_llm(k, p)
    \/ FinishFromLlm
    \/ \E c \in Calls, texts \in DocumentBatches : CallEmbedDocuments(c, texts)
    \/ \E c \in Calls : CallEmbedQuery(c)
    \/ \E c \in Calls : Generate(c)
    \/ \E c \in Calls : EmbedCandidates(c)
    \/ \E c \in Calls : CombineAndReturn(c)
    \/ \E c \in Calls : Finish(c)

Spec == Init /\ [][Next]_vars

\* ---------------------------------------------------------- properties
\* The frames of embed_query calls, and of finished ones.
QueryCalls == {c \in Calls : frame[c].op = "embed_query"}
Finished(c) == frame[c].pc \in {"returned", "raised"}

\* What the generative model answered to c's request, and the vectors the
\* embedding model holds for those completions.
AnsweredOk(c) ==
    /\ Len(frame[c].llm_calls) >= 1
    /\ frame[c].llm_calls[1].response.tag = "ok"
Completions(c) ==
    LET g == frame[c].llm_calls[1].response.generations
    IN  [i \in 1..Len(g) |-> g[i].text]
CandidateVectors(c) ==
    [i \in 1..Len(Completions(c)) |-> EmbedTable[Completions(c)[i]]]

\* The sum of the i-th components of the first k vectors: exact, and as
\* the floating-point format accumulates it in sequence order.
RECURSIVE ColumnSum(_, _, _)
ColumnSum(vecs, i, k) ==
    IF k = 0 THEN 0 ELSE ColumnSum(vecs, i, k - 1) + vecs[k][i]
RECURSIVE ColumnFloatSum(_, _, _)
ColumnFloatSum(vecs, i, k) ==
    IF k = 1 THEN vecs[1][i]
    ELSE FRound(ColumnFloatSum(vecs, i, k - 1) + vecs[k][i], 1)
\* No partial sum of column i is rounded.
SumsExact(vecs, i) ==
    \A k \in 1..Len(vecs) : ColumnFloatSum(vecs, i, k) = ColumnSum(vecs, i, k)
\* x is the exact mean of column i.
IsExactMean(x, vecs, i) == x * Len(vecs) = ColumnSum(vecs, i, Len(vecs))
\* The exact mean of column i is a number of the format.
MeanRepresentable(vecs, i) ==
    LET sum == ColumnSum(vecs, i, Len(vecs))
    IN  FRound(sum, Len(vecs)) * Len(vecs) = sum

C2_CustomPromptWins ==
    (construct.pc # "idle" /\ construct.custom_prompt # NoPrompt)
    => /\ construct.pc = "returned"
       /\ construct.raised = NoExc
       /\ construct.value.constructed
       /\ construct.value.llm_chain.prompt = construct.custom_prompt
       /\ \A k \in DOMAIN PROMPT_MAP :
            construct.value.llm_chain.prompt # PROMPT_MAP[k]
       /\ llm_chains = {construct.value.llm_chain}

C2_Witness ==
    /\ construct.pc = "returned"
    /\ construct.custom_prompt = CustomPrompt
    /\ construct.prompt_key = "web_search"
    /\ construct.value.llm_chain.prompt = CustomPrompt

\* C3: without a custom prompt, from_llm with no prompt_key or with a key
\* that is not registered raises the configuration error (ValueError) whose
\* message lists the registered keys, and produces neither an embedder nor a
\* generation chain; a registered key resolves to the registry's template
\* for that key.
C3_KeyResolution ==
    /\ (construct.pc # "idle" /\ construct.custom_prompt = NoPrompt)
       => IF construct.prompt_key \in DOMAIN PROMPT_MAP
          THEN /\ construct.pc = "returned"
               /\ construct.value.constructed
               /\ construct.value.llm_chain.prompt = PROMPT_MAP[construct.prompt_key]
          ELSE /\ construct.pc = "raised"
               /\ construct.raised = "ValueError"
               /\ construct.message_keys = DOMAIN PROMPT_MAP
               /\ construct.value = NoEmbedder
               /\ llm_chains = {}
               /\ ~embedder.constructed
    /\ (construct.pc # "returned" /\ ~embedder.constructed) => llm_chains = {}

C3_Witness ==
    /\ construct.pc = "raised"
    /\ construct.prompt_key = "unknown_key"
    /\ construct.raised = "ValueError"
    /\ construct.message_keys = {"web_search", "sci_fact"}

\* C4 as claimed: zero completions make embed_query fail with a dedicated
\* empty-candidate error.
C4_DedicatedEmptyError ==
    \A c \in QueryCalls :
        (/\ AnsweredOk(c)
         /\ Len(Completions(c)) = 0
         /\ frame[c].has_embeddings
         /\ frame[c].pc # "combine")
        => /\ frame[c].pc = "raised"
           /\ frame[c].outcome.exc = "EmptyCandidateError"

\* C4 (amended): when the generative model returns zero completions,
\* embed_query never returns a vector (no zero vector, no NaN, no empty
\* list): it raises.  If the batch embedding of the empty candidate list
\* fails, that failure is raised; otherwise the TypeError of list() over
\* the scalar NaN that the mean of an empty array is.
C4_EmptyGenerationFails ==
    \A c \in QueryCalls :
        (AnsweredOk(c) /\ Len(Completions(c)) = 0)
        => /\ frame[c].pc # "returned"
           /\ frame[c].ret = <<>>
           /\ frame[c].outcome.tag # "ok"
           /\ Finished(c) =>
                /\ frame[c].pc = "raised"
                /\ frame[c].outcome.exc =
                     IF frame[c].has_embeddings THEN "TypeError" ELSE "EmbeddingError"
           /\ (frame[c].has_embeddings /\ frame[c].pc # "combine") => Finished(c)

C4_Witness ==
    \E c \in QueryCalls :
        /\ AnsweredOk(c)
        /\ Len(Completions(c)) = 0
        /\ frame[c].embeddings = <<>>
        /\ frame[c].has_embeddings
        /\ frame[c].combined
        /\ frame[c].pc = "raised"
        /\ frame[c].outcome.exc = "TypeError"

\* The frames of direct embed_documents calls.
DocumentCalls == {c \in Calls : frame[c].op = "embed_documents"}

\* C5: embed_documents(texts) makes exactly one call to the base model's
\* batch operation, with texts unchanged, and returns that call's result
\* unchanged: one vector per document, in input order; no generation call
\* is made and nothing is combined.
C5_PassThrough ==
    \A c \in DocumentCalls :
        LET f == frame[c]
        IN  /\ Finished(c)
            /\ Len(f.embed_calls) = 1
            /\ f.embed_calls[1].texts = f.texts
            /\ Len(f.llm_calls) = 0
            /\ ~f.combined
            /\ f.ret = <<>>
            /\ f.pc = "returned" =>
                 /\ f.embed_calls[1].response.tag = "ok"
                 /\ f.ret_docs = f.embed_calls[1].response.val
                 /\ Len(f.ret_docs) = Len(f.texts)
                 /\ \A i \in 1..Len(f.texts) : f.ret_docs[i] = EmbedTable[f.texts[i]]
            /\ f.pc = "raised" =>
                 /\ f.embed_calls[1].response.tag = "raise"
                 /\ f.outcome.exc = f.embed_calls[1].response.exc

C5_Witness ==
    \E c \in DocumentCalls :
        /\ frame[c].pc = "returned"
        /\ frame[c].texts = <<"doc1", "doc2">>
        /\ frame[c].ret_docs = << <<1, 3>>, <<3, 1>> >>
\* c's generation call failed / c's batch embedding call failed.
GenerationFailed(c) ==
    /\ Len(frame[c].llm_calls) >= 1
    /\ frame[c].llm_calls[1].response.tag = "raise"
EmbeddingFailed(c) ==
    /\ Len(frame[c].embed_calls) >= 1
    /\ frame[c].embed_calls[1].response.tag = "raise"

\* C6: a collaborator's failure is a hard failure of embed_query.  A failed
\* generation call makes embed_query raise that same error without calling
\* the embedding model (no fallback to the raw query); a failed batch
\* embedding call makes it raise that same error with nothing combined.
\* No vector is returned and neither call is made again.
C6_FailuresPropagate ==
    \A c \in QueryCalls :
        LET f == frame[c]
        IN  /\ GenerationFailed(c) =>
                 /\ f.pc = "raised"
                 /\ f.outcome = Raised(f.llm_calls[1].response.exc)
                 /\ Len(f.llm_calls) = 1
                 /\ Len(f.embed_calls) = 0
                 /\ ~f.has_documents /\ ~f.combined
                 /\ f.ret = <<>>
            /\ EmbeddingFailed(c) =>
                 /\ f.pc = "raised"
                 /\ f.outcome = Raised(f.embed_calls[1].response.exc)
                 /\ Len(f.llm_calls) = 1
                 /\ Len(f.embed_calls) = 1
                 /\ ~f.has_embeddings /\ ~f.combined
                 /\ f.ret = <<>>

C6_Witness ==
    \E c, d \in QueryCalls :
        /\ GenerationFailed(c)
        /\ frame[c].outcome.exc = "LLMError"
        /\ EmbeddingFailed(d)
        /\ Len(frame[d].documents) = MaxGen
        /\ frame[d].outcome.exc = "EmbeddingError"

\* C7: the steps of an embed_query call are strictly ordered: the embedding
\* call begins only after the generation call has completed, combination
\* begins only after the embedding call has returned the vectors of all
\* candidates, and the result is returned only after combination.
C7_StepOrder ==
    \A c \in QueryCalls :
        LET f == frame[c]
        IN  /\ Len(f.embed_calls) >= 1 =>
                 /\ AnsweredOk(c)
                 /\ f.has_documents
                 /\ f.pc # "generate"
            /\ f.combined =>
                 /\ Len(f.embed_calls) = 1
                 /\ f.embed_calls[1].response.tag = "ok"
                 /\ f.has_embeddings
                 /\ Len(f.embeddings) = Len(Completions(c))
                 /\ f.pc \notin {"generate", "embed", "combine"}
            /\ f.pc = "returned" => f.combined
            /\ f.pc = "generate" => Len(f.llm_calls) = 0 /\ Len(f.embed_calls) = 0
            /\ f.pc = "embed" => AnsweredOk(c) /\ Len(f.embed_calls) = 0
            /\ f.pc = "combine" => f.has_embeddings /\ ~f.combined

C7_Witness ==
    \E c \in QueryCalls :
        /\ frame[c].pc = "returned"
        /\ frame[c].combined
        /\ Len(frame[c].llm_calls) = 1
        /\ Len(frame[c].embed_calls) = 1
        /\ Len(frame[c].embeddings) = MaxGen
\* t holds the elements of s in some order.
Count(s, x) == Cardinality({i \in 1..Len(s) : s[i] = x})
IsPermutation(s, t) ==
    /\ Len(s) = Len(t)
    /\ \A x \in Docs : Count(s, x) = Count(t, x)

\* Two embed_query calls that returned and whose generated candidates were
\* the same documents, in whatever order.
PermutedPairs ==
    {<<c, d>> \in QueryCalls \X QueryCalls :
        /\ frame[c].pc = "returned"
        /\ frame[d].pc = "returned"
        /\ AnsweredOk(c) /\ AnsweredOk(d)
        /\ IsPermutation(Completions(c), Completions(d))}

\* C8 as claimed: for every candidate sequence and every permutation of it
\* embed_query returns the same vector.
C8_OrderIndependent ==
    \A p \in PermutedPairs : frame[p[1]].ret = frame[p[2]].ret

\* No partial sum of any component of c's candidate vectors is rounded.
AllSumsExact(c) ==
    \A i \in 1..Len(frame[c].ret) : SumsExact(CandidateVectors(c), i)

\* C8 (amended): permuting the generated candidates does not change the
\* vector embed_query returns when there are at most two candidates, or
\* when no partial sum of the components is rounded in either order; the
\* components are summed in candidate order in floating point, so with
\* three or more candidates a permutation can change the result.
C8_OrderIndependentWhenExact ==
    \A p \in PermutedPairs :
        (\/ Len(Completions(p[1])) <= 2
         \/ AllSumsExact(p[1]) /\ AllSumsExact(p[2]))
        => frame[p[1]].ret = frame[p[2]].ret

C8_Witness ==
    \E p \in PermutedPairs :
        /\ p[1] # p[2]
        /\ Completions(p[1]) # Completions(p[2])
        /\ Len(Completions(p[1])) = MaxGen
        /\ AllSumsExact(p[1]) /\ AllSumsExact(p[2])
        /\ frame[p[1]].ret = frame[p[2]].ret

\* The vector an embed_query call run on its own returns for the
\* completions c's request was answered with.
RunAlone(c) ==
    LET vecs == CandidateVectors(c)
    IN  [i \in 1..Len(vecs[1]) |->
           FRound(ColumnFloatSum(vecs, i, Len(vecs)), Len(vecs))]

\* C9: the embedder holds no mutable state across calls and the prompt
\* registry is never written after initialization: under every interleaving
\* of concurrent embed_query calls with different queries, a call that
\* returns returns the vector it would return run alone (whatever calls came
\* before it), no step writes the registry or the constructed embedder, and
\* a step of one call leaves the other calls' frames alone.
C9_Stateless ==
    /\ [](/\ promptMap = PROMPT_MAP
          /\ \A c \in QueryCalls :
               frame[c].pc = "returned" =>
                  /\ AnsweredOk(c)
                  /\ frame[c].llm_calls[1].request.value = QueryOf[c]
                  /\ frame[c].ret = RunAlone(c))
    /\ [][/\ promptMap' = promptMap
          /\ embedder.constructed => embedder' = embedder
          /\ \A c \in Calls :
               frame'[c] # frame[c] => \A d \in Calls \ {c} : frame'[d] = frame[d]]_vars

C9_Witness ==
    /\ frame["c1"].op = "embed_query" /\ frame["c1"].pc = "returned"
    /\ frame["c1"].text = "what is X"
    /\ frame["c2"].op = "embed_query" /\ frame["c2"].pc = "combine"
    /\ frame["c2"].text = "what is Y"
    /\ frame["c1"].documents # frame["c2"].documents

\* C10: an embed_query call submits exactly one generation request, which
\* binds the chain's first input variable to the query text, and then makes
\* exactly one batch embedding call, whose argument is the text of every
\* completion returned for that request, all of them and in model order;
\* the raw query text is not embedded.
C10_OneRequestOneBatch ==
    \A c \in QueryCalls :
        LET f == frame[c]
        IN  /\ Len(f.llm_calls) = IF f.pc = "generate" THEN 0 ELSE 1
            /\ Len(f.embed_calls) =
                 IF f.pc \in {"generate", "embed"} \/ GenerationFailed(c) THEN 0 ELSE 1
            /\ Len(f.llm_calls) = 1 =>
                 f.llm_calls[1].request =
                    [prompt |-> embedder.llm_chain.prompt,
                     var |-> LLMChainInputKeys(embedder.llm_chain)[1],
                     value |-> QueryOf[c]]
            /\ Len(f.embed_calls) = 1 =>
                 /\ f.embed_calls[1].texts = Completions(c)
                 /\ \A i \in 1..Len(f.embed_calls[1].texts) :
                      f.embed_calls[1].texts[i] # f.text

C10_Witness ==
    \E c \in QueryCalls :
        /\ frame[c].pc = "returned"
        /\ Len(frame[c].llm_calls) = 1
        /\ frame[c].llm_calls[1].request.value = "what is X"
        /\ Completions(c) = <<"doc2", "doc2", "doc1">>
        /\ frame[c].embed_calls[1].texts = <<"doc2", "doc2", "doc1">>
====
